---- MODULE Spec2Model ----
(***************************************************************************)
(* Aggregate tuples of chaincode/tuple_aggregate.go on a ledger: creation  *)
(* (SetFromInput, SetFromParents, AddToComputePlan, Save), the status      *)
(* handlers (logStartAggregate, logFailAggregate, logSuccessAggregate),    *)
(* child propagation (UpdateAggregatetupleChild) and commitStatusUpdate.   *)
(*                                                                         *)
(* A request runs against the committed ledger `db` and yields a result    *)
(* [err, db]; the ledger commits the result's db only when err = "".       *)
(* Strings that the code parses or formats (the rank) are sequences of     *)
(* one-character strings, so that strconv.Atoi and strconv.Itoa are        *)
(* computed and not assumed to be inverse to each other.                   *)
(***************************************************************************)
EXTENDS Integers, Sequences, FiniteSets, TLC

\* ------------------------------------------------------------------ bounds
\* Number of tuple keys a behaviour may create.
MaxTuples == 2
\* Longest list of inModels in a create request.
MaxParents == 1
\* Longest list of inModels in a create request of SpecParents.
MaxInModels == 2

\* ------------------------------------------------------------- input sets
Keys == 1..MaxTuples
\* Registered nodes; requests are issued by one of them.
Nodes == {"w1", "w2"}
Models == {"m1", "m2"}
\* The log text a fail or succeed request carries.
LogText == <<"oom">>
NoPlan == ""
NoModel == ""
NoRank == <<>>

StatusWaiting == "waiting"
StatusTodo == "todo"
StatusDoing == "doing"
StatusDone == "done"
StatusFailed == "failed"
StatusAborted == "aborted"
Statuses ==
  {StatusWaiting, StatusTodo, StatusDoing, StatusDone, StatusFailed, StatusAborted}

\* Error kinds of chaincode/errors; "" is success.
NoError == ""
ErrBadRequest == "BadRequest"
ErrForbidden == "Forbidden"
ErrConflict == "Conflict"
ErrNotFound == "NotFound"
ErrInternal == "Internal"
\* strconv.Atoi's *NumError, returned unwrapped by AddToComputePlan.
\* the ledger's answer to a transaction whose reads are out of date
ErrReadConflict == "MVCC_READ_CONFLICT"
ErrNumError == "NumError"

VARIABLES
  db,     \* the committed ledger: records, composite-key indexes, compute plans
  last,   \* the last request: [op, err, changes], its operation, the error
          \* kind of its response and the status changes it committed
  proposals,  \* the create transactions simulated and not yet ordered
  chain,  \* the transactions the ledger has validated and committed, in order
  run     \* the fail or success request whose propagation is under way

vars == <<db, last, proposals, chain, run>>

\* ------------------------------------------------------- strconv (Go stdlib)
DigitVal(c) ==
  CASE c = "0" -> 0 [] c = "1" -> 1 [] c = "2" -> 2 [] c = "3" -> 3 [] c = "4" -> 4
    [] c = "5" -> 5 [] c = "6" -> 6 [] c = "7" -> 7 [] c = "8" -> 8 [] c = "9" -> 9
    [] OTHER -> -1

DigitChar(d) ==
  CASE d = 0 -> "0" [] d = 1 -> "1" [] d = 2 -> "2" [] d = 3 -> "3" [] d = 4 -> "4"
    [] d = 5 -> "5" [] d = 6 -> "6" [] d = 7 -> "7" [] d = 8 -> "8" [] OTHER -> "9"

RECURSIVE DigitsValue(_)
DigitsValue(s) ==
  IF Len(s) = 0 THEN 0
  ELSE 10 * DigitsValue(SubSeq(s, 1, Len(s) - 1)) + DigitVal(s[Len(s)])

\* strconv.Atoi: an optional sign, then one or more decimal digits.
Atoi(s) ==
  LET signed == Len(s) > 0 /\ s[1] \in {"+", "-"}
      digits == IF signed THEN Tail(s) ELSE s
  IN IF Len(digits) = 0 \/ \E i \in 1..Len(digits) : DigitVal(digits[i]) < 0
     THEN [err |-> ErrNumError, val |-> 0]
     ELSE [err |-> NoError,
           val |-> IF signed /\ s[1] = "-" THEN -DigitsValue(digits)
                   ELSE DigitsValue(digits)]

RECURSIVE NatDigits(_)
NatDigits(n) ==
  IF n < 10 THEN <<DigitChar(n)>> ELSE Append(NatDigits(n \div 10), DigitChar(n % 10))

\* strconv.Itoa
Itoa(n) == IF n < 0 THEN <<"-">> \o NatDigits(-n) ELSE NatDigits(n)

\* ------------------------------------------------------------ ledger facade
EmptyDB ==
  [tuples |-> <<>>,           \* key -> Aggregatetuple record
   plans |-> [p \in {} |-> 0],  \* compute plan key -> plan
   idxWorkerStatus |-> {},    \* aggregatetuple~worker~status~key
   idxInModel |-> {},         \* tuple~inModel~key
   idxPlanRank |-> {},        \* computePlan~computeplankey~worker~rank~key
   idxModel |-> {},           \* model -> tuple
   events |-> <<>>]           \* tuple events of the running request

\* db.KeyExists
KeyExists(d, key) == key \in DOMAIN d.tuples

\* db.Add / db.Put of a tuple record
Put(d, key, tuple) ==
  [d EXCEPT !.tuples = [k \in DOMAIN d.tuples \cup {key} |->
                          IF k = key THEN tuple ELSE d.tuples[k]]]

\* db.UpdateIndex on aggregatetuple~worker~status~key: delete old, create new
UpdateIndex(d, oldAttributes, newAttributes) ==
  [d EXCEPT !.idxWorkerStatus = (@ \ {oldAttributes}) \cup {newAttributes}]

\* db.AddTupleEvent
AddTupleEvent(d, key) == [d EXCEPT !.events = Append(@, key)]

\* db.GetIndexKeys on computePlan~computeplankey~worker~rank~key: the keys of
\* the entries whose first attributes are exactly (plan, worker, rank)
GetIndexKeys(d, plan, worker, rank) ==
  {e[4] : e \in {x \in d.idxPlanRank : x[1] = plan /\ x[2] = worker /\ x[3] = rank}}

\* ------------------------------------------------------------ compute plans
\* db.GetComputePlan: the named plan, created empty on first reference; the
\* empty key names no plan.
GetComputePlan(d, planKey) ==
  IF planKey = NoPlan THEN [err |-> ErrNotFound, plan |-> <<>>]
  ELSE IF planKey \in DOMAIN d.plans THEN [err |-> NoError, plan |-> d.plans[planKey]]
  ELSE [err |-> NoError, plan |-> [members |-> <<>>, models |-> {}]]

\* computePlan.AddTuple: register the member with its status and worker
AddTuple(plan, tupleKey, status, worker) ==
  [plan EXCEPT !.members =
     [k \in DOMAIN plan.members \cup {tupleKey} |->
        IF k = tupleKey THEN [Status |-> status, Worker |-> worker]
        ELSE plan.members[k]]]

\* computePlan.Save
SavePlan(d, planKey, plan) ==
  [d EXCEPT !.plans = [p \in DOMAIN d.plans \cup {planKey} |->
                         IF p = planKey THEN plan ELSE d.plans[p]]]

\* UpdateComputePlanState: nothing for a tuple outside any plan
UpdateComputePlanState(d, planKey, newStatus, tupleKey, worker) ==
  IF planKey = NoPlan \/ planKey \notin DOMAIN d.plans THEN d
  ELSE SavePlan(d, planKey, AddTuple(d.plans[planKey], tupleKey, newStatus, worker))

\* TryAddIntermediaryModel: nothing for a tuple outside any plan
TryAddIntermediaryModel(d, planKey, worker, tupleKey, modelKey) ==
  IF planKey = NoPlan \/ planKey \notin DOMAIN d.plans THEN d
  ELSE [d EXCEPT !.plans[planKey].models = @ \cup {<<worker, tupleKey, modelKey>>}]

\* ------------------------------------------------------------- the tuple
\* Aggregatetuple{} : Go's zero value
ZeroTuple ==
  [Key |-> 0, Worker |-> "", Status |-> "", InModelKeys |-> <<>>,
   ComputePlanKey |-> NoPlan, Rank |-> 0, OutModel |-> NoModel, Log |-> <<>>,
   Permissions |-> {}]

\* Permissions are the set of their grant conditions: the open permissions
\* carry none, and a merge carries the conditions of both.
OpenPermissions == {}
MergePermissions(x, y) == x \cup y

\* SetFromInput: key, compute plan key and worker are copied from the request;
\* the worker must be a registered node.
SetFromInput(tuple, inp) ==
  LET t1 == [tuple EXCEPT !.Key = inp.Key, !.ComputePlanKey = inp.ComputePlanKey]
  IN IF inp.Worker \notin Nodes THEN [err |-> ErrBadRequest, tuple |-> t1]
     ELSE [err |-> NoError, tuple |-> [t1 EXCEPT !.Worker = inp.Worker]]

\* determineStatusFromInModels
determineStatusFromInModels(parentStatuses) ==
  IF \E i \in 1..Len(parentStatuses) : parentStatuses[i] = StatusFailed
  THEN StatusFailed
  ELSE IF \A i \in 1..Len(parentStatuses) : parentStatuses[i] = StatusDone
  THEN StatusTodo
  ELSE StatusWaiting

\* SetFromParents: every parent's asset type must resolve; the statuses of the
\* parents whose record is read feed determineStatusFromInModels.  `unread` is
\* the set of positions of inModels whose record read (db.GetAggregatetuple)
\* fails although the asset type was read: the switch assigns that error to a
\* variable of its own case clause, so the check after the switch never sees it.
\* SetFromParents' loop that takes a parent missing from the ledger for one
\* whose record is not read
RECURSIVE SetFromParentsLoop_MissingParentAccepted(_, _, _, _, _, _)
SetFromParentsLoop_MissingParentAccepted(d, inModels, i, unread, parentStatuses, inModelKeys) ==
  IF i > Len(inModels)
  THEN [err |-> NoError, parentStatuses |-> parentStatuses, inModelKeys |-> inModelKeys]
  ELSE SetFromParentsLoop_MissingParentAccepted(d, inModels, i + 1, unread,
         IF i \in unread \/ ~KeyExists(d, inModels[i]) THEN parentStatuses
         ELSE Append(parentStatuses, d.tuples[inModels[i]].Status),
         Append(inModelKeys, inModels[i]))

RECURSIVE SetFromParentsLoop(_, _, _, _, _, _)
SetFromParentsLoop(d, inModels, i, unread, parentStatuses, inModelKeys) ==
  IF i > Len(inModels)
  THEN [err |-> NoError, parentStatuses |-> parentStatuses, inModelKeys |-> inModelKeys]
  ELSE IF ~KeyExists(d, inModels[i])
  THEN [err |-> ErrInternal, parentStatuses |-> parentStatuses,
        inModelKeys |-> inModelKeys]
  ELSE SetFromParentsLoop(d, inModels, i + 1, unread,
         IF i \in unread THEN parentStatuses
         ELSE Append(parentStatuses, d.tuples[inModels[i]].Status),
         Append(inModelKeys, inModels[i]))

\* The permissions SetFromParents has merged after the parents from position i
\* on: the permissions of a parent whose record is read, Permissions{} (no
\* condition) for a parent whose record is not.
RECURSIVE MergeParents(_, _, _, _, _)
MergeParents(d, inModels, i, unread, permissions) ==
  IF i > Len(inModels) THEN permissions
  ELSE MergeParents(d, inModels, i + 1, unread,
         MergePermissions(permissions,
                          IF i \in unread \/ ~KeyExists(d, inModels[i]) THEN {}
                          ELSE d.tuples[inModels[i]].Permissions))

\* SetFromParents without the parents' statuses
SetFromParents_StatusesDropped(d, tuple, inModels, unread) ==
  LET r == SetFromParentsLoop(d, inModels, 1, unread, <<>>, tuple.InModelKeys)
  IN IF r.err # NoError THEN [err |-> r.err, tuple |-> tuple]
     ELSE [err |-> NoError,
           tuple |-> [tuple EXCEPT
                        !.Status = determineStatusFromInModels(<<>>),
                        !.InModelKeys = r.inModelKeys,
                        !.Permissions =
                           MergeParents(d, inModels, 1, unread, OpenPermissions)]]

\* SetFromParents that merges no parent's permissions
SetFromParents_NothingMerged(d, tuple, inModels, unread) ==
  LET r == SetFromParentsLoop(d, inModels, 1, unread, <<>>, tuple.InModelKeys)
  IN IF r.err # NoError THEN [err |-> r.err, tuple |-> tuple]
     ELSE [err |-> NoError,
           tuple |-> [tuple EXCEPT
                        !.Status = determineStatusFromInModels(r.parentStatuses),
                        !.InModelKeys = r.inModelKeys,
                        !.Permissions = OpenPermissions]]

SetFromParents(d, tuple, inModels, unread) ==
  LET r == SetFromParentsLoop(d, inModels, 1, unread, <<>>, tuple.InModelKeys)
  IN IF r.err # NoError THEN [err |-> r.err, tuple |-> tuple]
     ELSE [err |-> NoError,
           tuple |-> [tuple EXCEPT
                        !.Status = determineStatusFromInModels(r.parentStatuses),
                        !.InModelKeys = r.inModelKeys,
                        !.Permissions =
                           MergeParents(d, inModels, 1, unread, OpenPermissions)]]

\* AddToComputePlan: returns the tuple and the ledger with the plan saved.
AddToComputePlan(d, tuple, inp, traintupleKey, checkComputePlanAvailability) ==
  IF inp.Rank = NoRank
  THEN [err |-> IF inp.ComputePlanKey # NoPlan THEN ErrBadRequest ELSE NoError,
        tuple |-> tuple, db |-> d]
  ELSE
    LET parsed == Atoi(inp.Rank)
        t1 == [tuple EXCEPT !.Rank = parsed.val]
        t2 == [t1 EXCEPT !.ComputePlanKey = inp.ComputePlanKey]
        got == GetComputePlan(d, inp.ComputePlanKey)
        d1 == SavePlan(d, t2.ComputePlanKey,
                       AddTuple(got.plan, traintupleKey, t2.Status, t2.Worker))
        ttKeys == GetIndexKeys(d1, inp.ComputePlanKey, t2.Worker, inp.Rank)
    IN IF parsed.err # NoError THEN [err |-> parsed.err, tuple |-> t1, db |-> d]
       ELSE IF got.err # NoError THEN [err |-> got.err, tuple |-> t2, db |-> d]
       ELSE IF ~checkComputePlanAvailability
       THEN [err |-> NoError, tuple |-> t2, db |-> d1]
       ELSE IF ttKeys # {} THEN [err |-> ErrBadRequest, tuple |-> t2, db |-> d1]
       ELSE [err |-> NoError, tuple |-> t2, db |-> d1]

\* Save: the record and its composite keys
Save(d, tuple, aggregatetupleKey) ==
  LET d1 == Put(d, aggregatetupleKey, tuple)
      d2 == [d1 EXCEPT
               !.idxWorkerStatus =
                  @ \cup {<<tuple.Worker, tuple.Status, aggregatetupleKey>>},
               !.idxInModel =
                  @ \cup {<<tuple.InModelKeys[i], aggregatetupleKey>> :
                            i \in 1..Len(tuple.InModelKeys)}]
  IN IF tuple.ComputePlanKey # NoPlan
     THEN [d2 EXCEPT !.idxPlanRank =
             @ \cup {<<tuple.ComputePlanKey, tuple.Worker, Itoa(tuple.Rank),
                       aggregatetupleKey>>}]
     ELSE d2

\* createAggregatetupleInternal without the existence probe
createAggregatetupleInternal_NoExistenceProbe(d, inp, unread, checkComputePlanAvailability) ==
  LET a == SetFromInput(ZeroTuple, inp)
      b == SetFromParents(d, a.tuple, inp.InModels, unread)
      c == AddToComputePlan(d, b.tuple, inp, b.tuple.Key, checkComputePlanAvailability)
  IN IF a.err # NoError THEN [err |-> a.err, db |-> d]
     ELSE IF b.err # NoError THEN [err |-> b.err, db |-> d]
     ELSE IF c.err # NoError THEN [err |-> c.err, db |-> c.db]
     ELSE [err |-> NoError,
           db |-> AddTupleEvent(Save(c.db, c.tuple, c.tuple.Key), c.tuple.Key)]

\* createAggregatetupleInternal
createAggregatetupleInternal(d, inp, unread, checkComputePlanAvailability) ==
  LET a == SetFromInput(ZeroTuple, inp)
      b == SetFromParents(d, a.tuple, inp.InModels, unread)
      c == AddToComputePlan(d, b.tuple, inp, b.tuple.Key, checkComputePlanAvailability)
  IN IF a.err # NoError THEN [err |-> a.err, db |-> d]
     ELSE IF b.err # NoError THEN [err |-> b.err, db |-> d]
     ELSE IF KeyExists(d, b.tuple.Key) THEN [err |-> ErrConflict, db |-> d]
     ELSE IF c.err # NoError THEN [err |-> c.err, db |-> c.db]
     ELSE [err |-> NoError,
           db |-> AddTupleEvent(Save(c.db, c.tuple, c.tuple.Key), c.tuple.Key)]

\* A ledger that keeps the writes of a failed request
Commit_KeepsWrites(d, result) == [result.db EXCEPT !.events = <<>>]

\* The ledger commits a request's writes only when the request succeeds; the
\* request's events leave with its response.
Commit(d, result) ==
  IF result.err = NoError THEN [result.db EXCEPT !.events = <<>>] ELSE d

\* ------------------------------------------------------- status management
\* checkUpdateTuple: the lifecycle's edges.  A waiting tuple may be failed:
\* that is the edge child propagation takes when a parent fails.
checkUpdateTuple(worker, oldStatus, newStatus) ==
  IF \/ oldStatus = StatusWaiting /\ newStatus = StatusTodo
     \/ oldStatus = StatusTodo /\ newStatus = StatusDoing
     \/ oldStatus = StatusDoing /\ newStatus = StatusDone
     \/ oldStatus = StatusDoing /\ newStatus = StatusFailed
     \/ oldStatus = StatusWaiting /\ newStatus = StatusFailed
     \/ oldStatus = StatusWaiting /\ newStatus = StatusAborted
  THEN NoError
  ELSE ErrBadRequest

\* validateNewStatus
validateNewStatus(tuple, status) == checkUpdateTuple(tuple.Worker, tuple.Status, status)

\* commitStatusUpdate without validateNewStatus
commitStatusUpdate_Unvalidated(d, tuple, aggregatetupleKey, newStatus) ==
  IF tuple.Status = newStatus THEN [err |-> NoError, db |-> d, tuple |-> tuple]
  ELSE IF StatusAborted = newStatus /\ tuple.Status # StatusWaiting
  THEN [err |-> NoError, db |-> d, tuple |-> tuple]
  ELSE
    LET oldStatus == tuple.Status
        t1 == [tuple EXCEPT !.Status = newStatus]
        d1 == Put(d, aggregatetupleKey, t1)
        d2 == UpdateIndex(d1, <<t1.Worker, oldStatus, aggregatetupleKey>>,
                          <<t1.Worker, t1.Status, aggregatetupleKey>>)
        d3 == UpdateComputePlanState(d2, t1.ComputePlanKey, newStatus,
                                     aggregatetupleKey, t1.Worker)
    IN [err |-> NoError, db |-> d3, tuple |-> t1]

\* commitStatusUpdate without the return on an unchanged status
commitStatusUpdate_NoEarlyReturn(d, tuple, aggregatetupleKey, newStatus) ==
  IF StatusAborted = newStatus /\ tuple.Status # StatusWaiting
  THEN [err |-> NoError, db |-> d, tuple |-> tuple]
  ELSE IF validateNewStatus(tuple, newStatus) # NoError
  THEN [err |-> ErrInternal, db |-> d, tuple |-> tuple]
  ELSE
    LET oldStatus == tuple.Status
        t1 == [tuple EXCEPT !.Status = newStatus]
        d1 == Put(d, aggregatetupleKey, t1)
        d2 == UpdateIndex(d1, <<t1.Worker, oldStatus, aggregatetupleKey>>,
                          <<t1.Worker, t1.Status, aggregatetupleKey>>)
        d3 == UpdateComputePlanState(d2, t1.ComputePlanKey, newStatus,
                                     aggregatetupleKey, t1.Worker)
    IN [err |-> NoError, db |-> d3, tuple |-> t1]

\* commitStatusUpdate writing the record on an unchanged status too
commitStatusUpdate_WritesUnchanged(d, tuple, aggregatetupleKey, newStatus) ==
  IF tuple.Status = newStatus
  THEN [err |-> NoError, db |-> Put(d, aggregatetupleKey, tuple), tuple |-> tuple]
  ELSE IF StatusAborted = newStatus /\ tuple.Status # StatusWaiting
  THEN [err |-> NoError, db |-> d, tuple |-> tuple]
  ELSE IF validateNewStatus(tuple, newStatus) # NoError
  THEN [err |-> ErrInternal, db |-> d, tuple |-> tuple]
  ELSE
    LET oldStatus == tuple.Status
        t1 == [tuple EXCEPT !.Status = newStatus]
        d1 == Put(d, aggregatetupleKey, t1)
        d2 == UpdateIndex(d1, <<t1.Worker, oldStatus, aggregatetupleKey>>,
                          <<t1.Worker, t1.Status, aggregatetupleKey>>)
        d3 == UpdateComputePlanState(d2, t1.ComputePlanKey, newStatus,
                                     aggregatetupleKey, t1.Worker)
    IN [err |-> NoError, db |-> d3, tuple |-> t1]

\* commitStatusUpdate without the guard that keeps aborted to waiting tuples
commitStatusUpdate_AbortsAny(d, tuple, aggregatetupleKey, newStatus) ==
  IF tuple.Status = newStatus THEN [err |-> NoError, db |-> d, tuple |-> tuple]
  ELSE IF validateNewStatus(tuple, newStatus) # NoError
  THEN [err |-> ErrInternal, db |-> d, tuple |-> tuple]
  ELSE
    LET oldStatus == tuple.Status
        t1 == [tuple EXCEPT !.Status = newStatus]
        d1 == Put(d, aggregatetupleKey, t1)
        d2 == UpdateIndex(d1, <<t1.Worker, oldStatus, aggregatetupleKey>>,
                          <<t1.Worker, t1.Status, aggregatetupleKey>>)
        d3 == UpdateComputePlanState(d2, t1.ComputePlanKey, newStatus,
                                     aggregatetupleKey, t1.Worker)
    IN [err |-> NoError, db |-> d3, tuple |-> t1]

\* commitStatusUpdate without the update of the (worker, status) index
commitStatusUpdate_IndexNotUpdated(d, tuple, aggregatetupleKey, newStatus) ==
  IF tuple.Status = newStatus THEN [err |-> NoError, db |-> d, tuple |-> tuple]
  ELSE IF StatusAborted = newStatus /\ tuple.Status # StatusWaiting
  THEN [err |-> NoError, db |-> d, tuple |-> tuple]
  ELSE IF validateNewStatus(tuple, newStatus) # NoError
  THEN [err |-> ErrInternal, db |-> d, tuple |-> tuple]
  ELSE
    LET t1 == [tuple EXCEPT !.Status = newStatus]
        d1 == Put(d, aggregatetupleKey, t1)
        d3 == UpdateComputePlanState(d1, t1.ComputePlanKey, newStatus,
                                     aggregatetupleKey, t1.Worker)
    IN [err |-> NoError, db |-> d3, tuple |-> t1]

\* commitStatusUpdate without the update of the compute plan
commitStatusUpdate_PlanNotUpdated(d, tuple, aggregatetupleKey, newStatus) ==
  IF tuple.Status = newStatus THEN [err |-> NoError, db |-> d, tuple |-> tuple]
  ELSE IF StatusAborted = newStatus /\ tuple.Status # StatusWaiting
  THEN [err |-> NoError, db |-> d, tuple |-> tuple]
  ELSE IF validateNewStatus(tuple, newStatus) # NoError
  THEN [err |-> ErrInternal, db |-> d, tuple |-> tuple]
  ELSE
    LET oldStatus == tuple.Status
        t1 == [tuple EXCEPT !.Status = newStatus]
        d1 == Put(d, aggregatetupleKey, t1)
        d2 == UpdateIndex(d1, <<t1.Worker, oldStatus, aggregatetupleKey>>,
                          <<t1.Worker, t1.Status, aggregatetupleKey>>)
    IN [err |-> NoError, db |-> d2, tuple |-> t1]

\* commitStatusUpdate: the in-memory tuple (with the caller's changes to Log
\* and OutModel) is written only when the status changes.
commitStatusUpdate(d, tuple, aggregatetupleKey, newStatus) ==
  IF tuple.Status = newStatus THEN [err |-> NoError, db |-> d, tuple |-> tuple]
  ELSE IF StatusAborted = newStatus /\ tuple.Status # StatusWaiting
  THEN [err |-> NoError, db |-> d, tuple |-> tuple]
  ELSE IF validateNewStatus(tuple, newStatus) # NoError
  THEN [err |-> ErrInternal, db |-> d, tuple |-> tuple]
  ELSE
    LET oldStatus == tuple.Status
        t1 == [tuple EXCEPT !.Status = newStatus]
        d1 == Put(d, aggregatetupleKey, t1)
        d2 == UpdateIndex(d1, <<t1.Worker, oldStatus, aggregatetupleKey>>,
                          <<t1.Worker, t1.Status, aggregatetupleKey>>)
        d3 == UpdateComputePlanState(d2, t1.ComputePlanKey, newStatus,
                                     aggregatetupleKey, t1.Worker)
    IN [err |-> NoError, db |-> d3, tuple |-> t1]

\* validateTupleOwner: the caller must be the tuple's worker
validateTupleOwner(caller, worker) == IF caller = worker THEN NoError ELSE ErrForbidden

\* IsReady: every inModel other than the one just done has status done
IsReady(d, inModelKeys, newDoneKey) ==
  \A i \in 1..Len(inModelKeys) :
    inModelKeys[i] = newDoneKey \/ d.tuples[inModelKeys[i]].Status = StatusDone

\* Aggregatetuple.isReady
isReady(d, tuple, newDoneAggregatetupleKey) ==
  IsReady(d, tuple.InModelKeys, newDoneAggregatetupleKey)

\* UpdateAggregatetupleChild deaf to a failed parent
UpdateAggregatetupleChild_IgnoresFailure(d, parentAggregatetupleKey, childAggregatetupleKey, aggregatetupleStatus) ==
  LET childAggregatetuple == d.tuples[childAggregatetupleKey]
      newStatus ==
        IF aggregatetupleStatus = StatusDone
           /\ isReady(d, childAggregatetuple, parentAggregatetupleKey)
        THEN StatusTodo
        ELSE ""
      c == commitStatusUpdate(d, childAggregatetuple, childAggregatetupleKey, newStatus)
  IN IF newStatus = ""
     THEN [err |-> NoError, db |-> d, childStatus |-> childAggregatetuple.Status]
     ELSE IF c.err # NoError
     THEN [err |-> c.err, db |-> c.db, childStatus |-> childAggregatetuple.Status]
     ELSE [err |-> NoError, db |-> AddTupleEvent(c.db, childAggregatetupleKey),
           childStatus |-> c.tuple.Status]

\* UpdateAggregatetupleChild
UpdateAggregatetupleChild(d, parentAggregatetupleKey, childAggregatetupleKey, aggregatetupleStatus) ==
  LET childAggregatetuple == d.tuples[childAggregatetupleKey]
      newStatus ==
        IF aggregatetupleStatus = StatusFailed THEN StatusFailed
        ELSE IF aggregatetupleStatus = StatusDone
                /\ isReady(d, childAggregatetuple, parentAggregatetupleKey)
        THEN StatusTodo
        ELSE ""
      c == commitStatusUpdate(d, childAggregatetuple, childAggregatetupleKey, newStatus)
  IN IF newStatus = ""
     THEN [err |-> NoError, db |-> d, childStatus |-> childAggregatetuple.Status]
     ELSE IF c.err # NoError
     THEN [err |-> c.err, db |-> c.db, childStatus |-> childAggregatetuple.Status]
     ELSE [err |-> NoError, db |-> AddTupleEvent(c.db, childAggregatetupleKey),
           childStatus |-> c.tuple.Status]

\* The keys of tuple~inModel~key under one parent, in the index's order
ChildKeys(d, parentKey) == {e[2] : e \in {x \in d.idxInModel : x[1] = parentKey}}

Least(S) == CHOOSE x \in S : \A y \in S : x <= y

\* UpdateTesttupleChildren walks the test tuples that evaluate a parent's
\* model: the ledger of this model holds aggregate tuples only, so it finds
\* none and changes nothing.
\* UpdateTraintupleChildren: each child of the index not yet updated is
\* updated with the parent's status, then its own children with its status.
RECURSIVE UpdateTraintupleChildren(_, _, _, _)
RECURSIVE UpdateChildrenLoop(_, _, _, _, _)
UpdateChildrenLoop(d, parentKey, parentStatus, todo, alreadyUpdatedKeys) ==
  IF todo = {} THEN [err |-> NoError, db |-> d]
  ELSE
    LET child == Least(todo)
        rest == todo \ {child}
        u == UpdateAggregatetupleChild(d, parentKey, child, parentStatus)
        already == alreadyUpdatedKeys \cup {child}
        r == UpdateTraintupleChildren(u.db, child, u.childStatus, already)
    IN IF child \in alreadyUpdatedKeys
       THEN UpdateChildrenLoop(d, parentKey, parentStatus, rest, alreadyUpdatedKeys)
       ELSE IF u.err # NoError THEN [err |-> u.err, db |-> u.db]
       ELSE IF r.err # NoError THEN r
       ELSE UpdateChildrenLoop(r.db, parentKey, parentStatus, rest, already)

UpdateTraintupleChildren(d, traintupleKey, traintupleStatus, alreadyUpdatedKeys) ==
  UpdateChildrenLoop(d, traintupleKey, traintupleStatus,
                     ChildKeys(d, traintupleKey), alreadyUpdatedKeys)

\* createModelIndex: the model -> tuple entry
createModelIndex(d, modelKey, tupleKey) ==
  [d EXCEPT !.idxModel = @ \cup {<<modelKey, tupleKey>>}]

\* logStartAggregate open to any caller
logStartAggregate_AnyCaller(d, key, caller) ==
  IF ~KeyExists(d, key) THEN [err |-> ErrNotFound, db |-> d]
  ELSE
    LET aggregatetuple == d.tuples[key]
        c == commitStatusUpdate(d, aggregatetuple, key, StatusDoing)
    IN [err |-> c.err, db |-> c.db]

\* logStartAggregate
logStartAggregate(d, key, caller) ==
  IF ~KeyExists(d, key) THEN [err |-> ErrNotFound, db |-> d]
  ELSE
    LET aggregatetuple == d.tuples[key]
        c == commitStatusUpdate(d, aggregatetuple, key, StatusDoing)
    IN IF validateTupleOwner(caller, aggregatetuple.Worker) # NoError
       THEN [err |-> ErrForbidden, db |-> d]
       ELSE [err |-> c.err, db |-> c.db]

\* logFailAggregate propagating inside a compute plan too
logFailAggregate_AlwaysPropagates(d, key, log, caller) ==
  IF ~KeyExists(d, key) THEN [err |-> ErrNotFound, db |-> d]
  ELSE
    LET aggregatetuple == [d.tuples[key] EXCEPT !.Log = @ \o log]
        c == commitStatusUpdate(d, aggregatetuple, key, StatusFailed)
    IN IF validateTupleOwner(caller, aggregatetuple.Worker) # NoError
       THEN [err |-> ErrForbidden, db |-> d]
       ELSE IF c.err # NoError THEN [err |-> c.err, db |-> c.db]
       ELSE UpdateTraintupleChildren(c.db, key, c.tuple.Status, {})

\* logFailAggregate
logFailAggregate(d, key, log, caller) ==
  IF ~KeyExists(d, key) THEN [err |-> ErrNotFound, db |-> d]
  ELSE
    LET aggregatetuple == [d.tuples[key] EXCEPT !.Log = @ \o log]
        c == commitStatusUpdate(d, aggregatetuple, key, StatusFailed)
    IN IF validateTupleOwner(caller, aggregatetuple.Worker) # NoError
       THEN [err |-> ErrForbidden, db |-> d]
       ELSE IF c.err # NoError THEN [err |-> c.err, db |-> c.db]
       ELSE IF c.tuple.ComputePlanKey # NoPlan THEN [err |-> NoError, db |-> c.db]
       ELSE UpdateTraintupleChildren(c.db, key, c.tuple.Status, {})

\* logSuccessAggregate
logSuccessAggregate(d, key, outModelKey, log, caller) ==
  IF ~KeyExists(d, key) THEN [err |-> ErrNotFound, db |-> d]
  ELSE
    LET aggregatetuple ==
          [d.tuples[key] EXCEPT !.OutModel = outModelKey, !.Log = @ \o log]
        d1 == createModelIndex(d, outModelKey, key)
        c == commitStatusUpdate(d1, aggregatetuple, key, StatusDone)
        d2 == TryAddIntermediaryModel(c.db, c.tuple.ComputePlanKey, c.tuple.Worker,
                                      key, c.tuple.OutModel)
    IN IF validateTupleOwner(caller, aggregatetuple.Worker) # NoError
       THEN [err |-> ErrForbidden, db |-> d1]
       ELSE IF c.err # NoError THEN [err |-> c.err, db |-> c.db]
       ELSE UpdateTraintupleChildren(d2, key, c.tuple.Status, {})

\* ----------------------------------------------------------------- requests
\* No request is propagating.
Idle == [op |-> "idle"]

RECURSIVE SeqsUpTo(_, _)
SeqsUpTo(S, n) ==
  IF n = 0 THEN {<<>>}
  ELSE LET shorter == SeqsUpTo(S, n - 1)
       IN shorter \cup {Append(s, x) : s \in shorter, x \in S}

\* Keys are created in increasing order: the next fresh key is the number of
\* tuples on the ledger plus one.
ExistingKeys == DOMAIN db.tuples
FreshKeys == {k \in Keys : k = Cardinality(ExistingKeys) + 1}

\* The workers create requests assign tuples to.
Workers == {"w1"}

PlanAndRank == {<<NoPlan, NoRank>>, <<"cp", <<"1">>>>}

CreateRequest(k, w, pr, ms) ==
  [Key |-> k, Worker |-> w, ComputePlanKey |-> pr[1], Rank |-> pr[2], InModels |-> ms]

\* A request for a fresh key lists any existing keys, or the fresh key itself
\* (a parent that does not exist); a request for an existing key lists none.
CreateRequests ==
  {CreateRequest(k, w, pr, ms) :
     k \in FreshKeys, w \in Workers, pr \in PlanAndRank,
     ms \in SeqsUpTo(ExistingKeys \cup FreshKeys, MaxParents)}
  \cup
  {CreateRequest(k, w, pr, <<>>) : k \in ExistingKeys, w \in Workers, pr \in PlanAndRank}

Init ==
  /\ db = EmptyDB
  /\ last = [op |-> "init", err |-> NoError, changes |-> {}]
  /\ proposals = {}
  /\ chain = <<>>
  /\ run = Idle

\* <<key, old status, new status>> of every tuple whose status differs between
\* two ledgers; the old status of a created tuple is "".
Changes(d, e) ==
  {<<k, IF k \in DOMAIN d.tuples THEN d.tuples[k].Status ELSE "", e.tuples[k].Status>> :
     k \in {x \in DOMAIN e.tuples :
              x \notin DOMAIN d.tuples \/ d.tuples[x].Status # e.tuples[x].Status}}

Respond(op, result) ==
  /\ db' = Commit(db, result)
  /\ last' = [op |-> op, err |-> result.err, changes |-> Changes(db, Commit(db, result))]
  /\ UNCHANGED <<proposals, chain, run>>

createAggregatetuple ==
  \E inp \in CreateRequests :
    Respond("create", createAggregatetupleInternal(db, inp, {}, TRUE))

StartRequest ==
  \E key \in ExistingKeys \cup FreshKeys, caller \in Nodes :
    Respond("start", logStartAggregate(db, key, caller))

FailRequest ==
  \E key \in ExistingKeys \cup FreshKeys, caller \in Nodes :
    Respond("fail", logFailAggregate(db, key, LogText, caller))

SuccessRequest ==
  \E key \in ExistingKeys \cup FreshKeys, model \in Models, caller \in Nodes :
    Respond("success", logSuccessAggregate(db, key, model, LogText, caller))

Next ==
  \/ createAggregatetuple
  \/ StartRequest
  \/ FailRequest
  \/ SuccessRequest

Spec == Init /\ [][Next]_vars

\* Creation alone, with the rank strings a request can carry: no rank, plain
\* numbers of one and two digits, a number with a leading zero or a sign, and
\* text that is no number.
RankInputs ==
  {NoRank, <<"0">>, <<"1">>, <<"1", "0">>, <<"0", "1">>, <<"+", "1">>, <<"-", "1">>, <<"x">>}

PlanRequests ==
  {CreateRequest(k, w, <<p, r>>, <<>>) :
     k \in FreshKeys, w \in Nodes, p \in {NoPlan, "cp"}, r \in RankInputs}

createAggregatetupleRanked ==
  \E inp \in PlanRequests :
    Respond("create", createAggregatetupleInternal(db, inp, {}, TRUE))

NextPlan == createAggregatetupleRanked

SpecPlan == Init /\ [][NextPlan]_vars

\* Creation over parents in every status.  The ledger starts with up to
\* MaxTuples tuples without parents, each in any status as its own requests
\* (or, for aborted, the cancellation of its compute plan) have left it; each
\* request creates the next key from a list of up to MaxInModels of the tuples
\* on the ledger.
ParentTuple(k, status) ==
  [ZeroTuple EXCEPT
     !.Key = k, !.Worker = "w1", !.Status = status,
     !.OutModel = IF status = StatusDone THEN "m1" ELSE NoModel,
     !.Log = IF status \in {StatusDone, StatusFailed} THEN LogText ELSE <<>>]

RECURSIVE SaveParents(_, _, _)
SaveParents(d, statuses, i) ==
  IF i > Len(statuses) THEN d
  ELSE LET saved == Save(d, ParentTuple(i, statuses[i]), i)
       IN SaveParents(IF statuses[i] = StatusDone
                      THEN createModelIndex(saved, "m1", i) ELSE saved,
                      statuses, i + 1)

ParentLedgers == {SaveParents(EmptyDB, ss, 1) : ss \in SeqsUpTo(Statuses, MaxTuples)}

InitParents ==
  /\ db \in ParentLedgers
  /\ last = [op |-> "init", err |-> NoError, changes |-> {}]
  /\ proposals = {}
  /\ chain = <<>>
  /\ run = Idle

createAggregatetupleFromParents ==
  /\ Cardinality(ExistingKeys) <= MaxTuples
  /\ \E ms \in SeqsUpTo(ExistingKeys, MaxInModels) :
       Respond("create",
               createAggregatetupleInternal(
                 db, CreateRequest(Cardinality(ExistingKeys) + 1, "w1", <<NoPlan, NoRank>>, ms),
                 {}, TRUE))

NextParents == createAggregatetupleFromParents

SpecParents == InitParents /\ [][NextParents]_vars

\* The abort of single tuples, as the cancellation of a compute plan applies
\* it: commitStatusUpdate with status aborted.  The ledger starts with up to
\* MaxTuples tuples, each in any status, inside the compute plan "cp" (with
\* its key as rank) or outside any plan.  The records list no parents:
\* commitStatusUpdate reads none.
RECURSIVE SaveMembers(_, _, _)
SaveMembers(d, members, i) ==
  IF i > Len(members) THEN d
  ELSE
    LET status == members[i][1]
        plan == members[i][2]
        tuple == [ParentTuple(i, status) EXCEPT !.ComputePlanKey = plan,
                                                !.Rank = IF plan = NoPlan THEN 0 ELSE i]
        d1 == IF plan = NoPlan THEN d
              ELSE SavePlan(d, plan, AddTuple(GetComputePlan(d, plan).plan, i, status, tuple.Worker))
        d2 == Save(d1, tuple, i)
        d3 == IF status = StatusDone
              THEN TryAddIntermediaryModel(createModelIndex(d2, "m1", i), plan, tuple.Worker, i, "m1")
              ELSE d2
    IN SaveMembers(d3, members, i + 1)

MemberLedgers ==
  {SaveMembers(EmptyDB, ms, 1) : ms \in SeqsUpTo(Statuses \X {NoPlan, "cp"}, MaxTuples)}

InitAbort ==
  /\ db \in MemberLedgers
  /\ last = [op |-> "init", err |-> NoError, changes |-> {}]
  /\ proposals = {}
  /\ chain = <<>>
  /\ run = Idle

AbortRequest ==
  \E key \in ExistingKeys :
    Respond("abort", commitStatusUpdate(db, db.tuples[key], key, StatusAborted))

NextAbort == AbortRequest

SpecAbort == InitAbort /\ [][NextAbort]_vars

\* Creation over parents some of whose records cannot be read.  The ledger
\* starts as in SpecParents; a request lists tuples of the ledger, or its own
\* key (a parent whose asset type does not resolve), and `unread` draws the
\* positions of the list at which db.GetAggregatetuple returns an error.
UnreadableCreations ==
  {<<CreateRequest(Cardinality(ExistingKeys) + 1, "w1", <<NoPlan, NoRank>>, ms), unread>> :
     ms \in SeqsUpTo(ExistingKeys \cup {Cardinality(ExistingKeys) + 1}, MaxInModels),
     unread \in SUBSET (1..MaxInModels)}

createAggregatetupleUnreadable ==
  /\ Cardinality(ExistingKeys) <= MaxTuples
  /\ \E c \in UnreadableCreations :
       /\ c[2] \subseteq 1..Len(c[1].InModels)
       /\ Respond("create", createAggregatetupleInternal(db, c[1], c[2], TRUE))

NextUnread == createAggregatetupleUnreadable

SpecUnread == InitParents /\ [][NextUnread]_vars

\* Creation over parents with different permissions.  The ledger starts with
\* up to MaxTuples done tuples, each with the permissions its own parents left
\* it: open, or under one of two grant conditions.
ParentPermissions == {OpenPermissions, {"a"}, {"b"}}

RECURSIVE SavePermitted(_, _, _)
SavePermitted(d, permissions, i) ==
  IF i > Len(permissions) THEN d
  ELSE SavePermitted(
         createModelIndex(
           Save(d, [ParentTuple(i, StatusDone) EXCEPT !.Permissions = permissions[i]], i),
           "m1", i),
         permissions, i + 1)

PermittedLedgers ==
  {SavePermitted(EmptyDB, ps, 1) : ps \in SeqsUpTo(ParentPermissions, MaxTuples)}

InitPermissions ==
  /\ db \in PermittedLedgers
  /\ last = [op |-> "init", err |-> NoError, changes |-> {}]
  /\ proposals = {}
  /\ chain = <<>>
  /\ run = Idle

PermittedRequests ==
  {CreateRequest(Cardinality(ExistingKeys) + 1, "w1", <<NoPlan, NoRank>>, ms) :
     ms \in SeqsUpTo(ExistingKeys, MaxInModels)}

createAggregatetuplePermitted ==
  /\ Cardinality(ExistingKeys) <= MaxTuples
  /\ \E inp \in PermittedRequests :
       Respond("create", createAggregatetupleInternal(db, inp, {}, TRUE))

NextPermissions == createAggregatetuplePermitted

SpecPermissions == InitPermissions /\ [][NextPermissions]_vars

\* Creation repeated.  Requests create tuples as in SpecPlan, or name a key
\* that is on the ledger already, with availability checking or without.
\* The create requests for a key that is on the ledger already: any plan and
\* rank of the model, any list of parents on the ledger or missing.
RepeatedCreateRequests ==
  {CreateRequest(k, w, pr, ms) :
     k \in ExistingKeys, w \in Workers, pr \in PlanAndRank,
     ms \in SeqsUpTo(ExistingKeys \cup FreshKeys, MaxParents)}

createAggregatetupleAgain ==
  \E inp \in RepeatedCreateRequests, check \in BOOLEAN :
    Respond("create again", createAggregatetupleInternal(db, inp, {}, check))

NextRepeated ==
  \/ createAggregatetupleRanked
  \/ createAggregatetupleAgain

SpecRepeated == Init /\ [][NextRepeated]_vars

\* Concurrent creation.  A create request is first simulated against the
\* ledger as it is then, which changes nothing; the ledger later orders the
\* simulated transactions one at a time, in any order, and commits the writes
\* of one only if what it read is still what the ledger holds.
\*
\* What a successful createAggregatetupleInternal reads: the records of the
\* parents (SetFromParents), the tuple's own key (KeyExists) and, for a
\* request with a rank, the compute plan (GetComputePlan) and the range of
\* computePlan~computeplankey~worker~rank~key the probe queries.
\* ReadItems of a creation that does not load the compute plan
ReadItems_PlanNotRead(inp) ==
  {<<"tuple", inp.InModels[i]>> : i \in 1..Len(inp.InModels)}
  \cup {<<"tuple", inp.Key>>}
  \cup (IF inp.Rank # NoRank
        THEN {<<"planRank", inp.ComputePlanKey, inp.Worker, inp.Rank>>}
        ELSE {})

ReadItems(inp) ==
  {<<"tuple", inp.InModels[i]>> : i \in 1..Len(inp.InModels)}
  \cup {<<"tuple", inp.Key>>}
  \cup (IF inp.Rank # NoRank
        THEN {<<"plan", inp.ComputePlanKey>>,
              <<"planRank", inp.ComputePlanKey, inp.Worker, inp.Rank>>}
        ELSE {})

\* What the ledger d holds for a read item.
Observe(d, item) ==
  CASE item[1] = "tuple" ->
         IF item[2] \in DOMAIN d.tuples THEN <<d.tuples[item[2]]>> ELSE <<>>
    [] item[1] = "plan" ->
         IF item[2] \in DOMAIN d.plans THEN <<d.plans[item[2]]>> ELSE <<>>
    [] item[1] = "planRank" -> GetIndexKeys(d, item[2], item[3], item[4])

\* Commit validation: every read of the transaction, range queries included,
\* still returns what the simulation saw.
Validate(d, tx) == \A item \in DOMAIN tx.reads : Observe(d, item) = tx.reads[item]

\* The entries of a function e that a simulation on the function s changed.
Written(s, e) == {k \in DOMAIN e : k \notin DOMAIN s \/ s[k] # e[k]}

\* The ledger d with the writes of a simulation that started from the
\* snapshot and ended in the ledger res.
ApplyWrites(d, snapshot, res) ==
  [tuples |-> [k \in DOMAIN d.tuples \cup Written(snapshot.tuples, res.tuples) |->
                 IF k \in Written(snapshot.tuples, res.tuples)
                 THEN res.tuples[k] ELSE d.tuples[k]],
   plans |-> [p \in DOMAIN d.plans \cup Written(snapshot.plans, res.plans) |->
                IF p \in Written(snapshot.plans, res.plans)
                THEN res.plans[p] ELSE d.plans[p]],
   idxWorkerStatus |-> (d.idxWorkerStatus \ (snapshot.idxWorkerStatus \ res.idxWorkerStatus))
                         \cup (res.idxWorkerStatus \ snapshot.idxWorkerStatus),
   idxInModel |-> (d.idxInModel \ (snapshot.idxInModel \ res.idxInModel))
                    \cup (res.idxInModel \ snapshot.idxInModel),
   idxPlanRank |-> (d.idxPlanRank \ (snapshot.idxPlanRank \ res.idxPlanRank))
                     \cup (res.idxPlanRank \ snapshot.idxPlanRank),
   idxModel |-> (d.idxModel \ (snapshot.idxModel \ res.idxModel))
                  \cup (res.idxModel \ snapshot.idxModel),
   events |-> <<>>]

\* The ranks of racing requests: none, a number, and the same number written
\* with a leading zero.
RaceRanks == {<<NoPlan, NoRank>>, <<"cp", <<"1">>>>, <<"cp", <<"0", "1">>>>}

RaceRequests ==
  {CreateRequest(k, w, pr, <<>>) : k \in Keys, w \in Workers, pr \in RaceRanks}

\* A node has its create request simulated, one transaction at a time; a
\* simulation that fails is answered with its error and proposes nothing.
Endorse ==
  \E creator \in Nodes, inp \in RaceRequests :
    LET result == createAggregatetupleInternal(db, inp, {}, TRUE)
        tx == [creator |-> creator, inp |-> inp, height |-> Len(chain), snapshot |-> db,
               reads |-> [item \in ReadItems(inp) |-> Observe(db, item)],
               result |-> result.db]
    IN /\ \A other \in proposals : other.creator # creator
       /\ proposals' = IF result.err = NoError THEN proposals \cup {tx} ELSE proposals
       /\ last' = [op |-> "endorse", err |-> result.err, changes |-> {},
                   tx |-> [inp |-> inp, height |-> Len(chain)]]
       /\ UNCHANGED <<db, chain, run>>

\* The ledger orders one simulated transaction and validates it.
Order ==
  \E tx \in proposals :
    LET valid == Validate(db, tx)
        committed == IF valid THEN ApplyWrites(db, tx.snapshot, tx.result) ELSE db
    IN /\ proposals' = proposals \ {tx}
       /\ db' = committed
       /\ chain' = IF valid THEN Append(chain, [inp |-> tx.inp, height |-> tx.height])
                   ELSE chain
       /\ last' = [op |-> "order", err |-> IF valid THEN NoError ELSE ErrReadConflict,
                   changes |-> Changes(db, committed),
                   tx |-> [inp |-> tx.inp, height |-> tx.height]]
       /\ UNCHANGED run

NextConcurrent ==
  \/ Endorse
  \/ Order

SpecConcurrent == Init /\ [][NextConcurrent]_vars

\* Propagation step by step.  A fail or success request runs its handler up
\* to the call of UpdateTraintupleChildren, then the calls of
\* UpdateTraintupleChildren one child at a time on the request's own view of
\* the ledger (run.work); the ledger commits the view when the first call
\* returns, and nothing when a child's update fails.  run.stack holds the
\* calls under way, the innermost last: the parent, the status handed down,
\* the children of the index still to visit and alreadyUpdatedKeys.
\*
\* logFailAggregate up to the propagation
logFailAggregateHead(d, key, log, caller) ==
  IF ~KeyExists(d, key) THEN [err |-> ErrNotFound, db |-> d, propagate |-> FALSE]
  ELSE
    LET aggregatetuple == [d.tuples[key] EXCEPT !.Log = @ \o log]
        c == commitStatusUpdate(d, aggregatetuple, key, StatusFailed)
    IN IF validateTupleOwner(caller, aggregatetuple.Worker) # NoError
       THEN [err |-> ErrForbidden, db |-> d, propagate |-> FALSE]
       ELSE IF c.err # NoError THEN [err |-> c.err, db |-> c.db, propagate |-> FALSE]
       ELSE IF c.tuple.ComputePlanKey # NoPlan
       THEN [err |-> NoError, db |-> c.db, propagate |-> FALSE]
       ELSE [err |-> NoError, db |-> c.db, propagate |-> TRUE, status |-> c.tuple.Status]

\* logSuccessAggregate up to the propagation
logSuccessAggregateHead(d, key, outModelKey, log, caller) ==
  IF ~KeyExists(d, key) THEN [err |-> ErrNotFound, db |-> d, propagate |-> FALSE]
  ELSE
    LET aggregatetuple ==
          [d.tuples[key] EXCEPT !.OutModel = outModelKey, !.Log = @ \o log]
        d1 == createModelIndex(d, outModelKey, key)
        c == commitStatusUpdate(d1, aggregatetuple, key, StatusDone)
        d2 == TryAddIntermediaryModel(c.db, c.tuple.ComputePlanKey, c.tuple.Worker,
                                      key, c.tuple.OutModel)
    IN IF validateTupleOwner(caller, aggregatetuple.Worker) # NoError
       THEN [err |-> ErrForbidden, db |-> d1, propagate |-> FALSE]
       ELSE IF c.err # NoError THEN [err |-> c.err, db |-> c.db, propagate |-> FALSE]
       ELSE [err |-> NoError, db |-> d2, propagate |-> TRUE, status |-> c.tuple.Status]

\* A call of UpdateTraintupleChildren
Call(d, traintupleKey, traintupleStatus, alreadyUpdatedKeys) ==
  [parentKey |-> traintupleKey, parentStatus |-> traintupleStatus,
   todo |-> ChildKeys(d, traintupleKey), alreadyUpdatedKeys |-> alreadyUpdatedKeys]

\* The request the handler's head leaves: answered at once, or propagating.
Begin(op, key, outModelKey, caller, head) ==
  IF head.propagate
  THEN /\ run' = [op |-> op, key |-> key, outModelKey |-> outModelKey, caller |-> caller,
                  work |-> head.db, stack |-> <<Call(head.db, key, head.status, {})>>,
                  updates |-> 0]
       /\ UNCHANGED <<db, last, proposals, chain>>
  ELSE Respond(op, [err |-> head.err, db |-> head.db])

\* The create requests that build the graph: a fresh key over any keys on
\* the ledger, or over itself (a parent that does not exist), outside any
\* compute plan.
GraphRequests ==
  {CreateRequest(k, w, <<NoPlan, NoRank>>, ms) :
     k \in FreshKeys, w \in Workers,
     ms \in SeqsUpTo(ExistingKeys \cup FreshKeys, MaxParents)}

createAggregatetupleIdle ==
  /\ run = Idle
  /\ \E inp \in GraphRequests :
       Respond("create", createAggregatetupleInternal(db, inp, {}, TRUE))

StartRequestIdle ==
  /\ run = Idle
  /\ \E key \in ExistingKeys, caller \in Workers :
       Respond("start", logStartAggregate(db, key, caller))

BeginFail ==
  /\ run = Idle
  /\ \E key \in ExistingKeys, caller \in Workers :
       Begin("fail", key, NoModel, caller, logFailAggregateHead(db, key, LogText, caller))

BeginSuccess ==
  /\ run = Idle
  /\ \E key \in ExistingKeys, caller \in Workers :
       Begin("success", key, "m1", caller,
             logSuccessAggregateHead(db, key, "m1", LogText, caller))

\* The request is answered: the ledger commits the result and the run ends.
End(result) ==
  /\ db' = Commit(db, result)
  /\ last' = [op |-> run.op, err |-> result.err, changes |-> Changes(db, Commit(db, result))]
  /\ run' = Idle
  /\ UNCHANGED <<proposals, chain>>

\* One turn of the loop of the innermost call of UpdateTraintupleChildren: the
\* call returns when no child is left (and the request with the first call);
\* a child in alreadyUpdatedKeys is passed over; any other child is updated
\* with the parent's status and its own children are entered with its status.
PropagateStep ==
  /\ run # Idle
  /\ LET n == Len(run.stack)
         call == run.stack[n]
         child == Least(call.todo)
         rest == [call EXCEPT !.todo = @ \ {child}]
         u == UpdateAggregatetupleChild(run.work, call.parentKey, child, call.parentStatus)
         already == call.alreadyUpdatedKeys \cup {child}
     IN IF call.todo = {}
        THEN IF n = 1 THEN End([err |-> NoError, db |-> run.work])
             ELSE /\ run' = [run EXCEPT !.stack = SubSeq(@, 1, n - 1)]
                  /\ UNCHANGED <<db, last, proposals, chain>>
        ELSE IF child \in call.alreadyUpdatedKeys
        THEN /\ run' = [run EXCEPT !.stack[n] = rest]
             /\ UNCHANGED <<db, last, proposals, chain>>
        ELSE IF u.err # NoError THEN End([err |-> u.err, db |-> u.db])
        ELSE /\ run' = [run EXCEPT
                          !.work = u.db,
                          !.updates = @ + 1,
                          !.stack = Append([@ EXCEPT ![n] = [rest EXCEPT !.alreadyUpdatedKeys = already]],
                                           Call(u.db, child, u.childStatus, already))]
             /\ UNCHANGED <<db, last, proposals, chain>>

NextPropagation ==
  \/ createAggregatetupleIdle
  \/ StartRequestIdle
  \/ BeginFail
  \/ BeginSuccess
  \/ PropagateStep

\* Every operation is synchronous and runs to completion: a propagation under
\* way takes its next step.
SpecPropagation == Init /\ [][NextPropagation]_vars /\ WF_vars(PropagateStep)

\* ------------------------------------------------------------------ claims
TupleKeys(d) == DOMAIN d.tuples
StatusOf(d, k) == d.tuples[k].Status
ParentKeys(d, k) == {d.tuples[k].InModelKeys[i] : i \in 1..Len(d.tuples[k].InModelKeys)}
AllParentsDone(d, k) == \A p \in ParentKeys(d, k) : StatusOf(d, p) = StatusDone
SomeParentFailed(d, k) == \E p \in ParentKeys(d, k) : StatusOf(d, p) = StatusFailed
\* The tuples whose status the step changes, with the change
StatusChanges ==
  {<<db.tuples[k].Status, db'.tuples[k].Status>> :
     k \in {x \in TupleKeys(db) : db'.tuples[x].Status # db.tuples[x].Status}}

\* The lifecycle as the claim C2 gives it.
LifecycleEdges ==
  {<<StatusWaiting, StatusTodo>>, <<StatusTodo, StatusDoing>>,
   <<StatusDoing, StatusDone>>, <<StatusDoing, StatusFailed>>,
   <<StatusWaiting, StatusAborted>>}

\* C2 as stated: every status is one of the six, and every status change a
\* request commits is an edge of waiting -> todo -> doing -> {done | failed}
\* or waiting -> aborted.
C2_Original ==
  [][/\ \A k \in TupleKeys(db') : StatusOf(db', k) \in Statuses
     /\ StatusChanges \subseteq LifecycleEdges]_vars

\* C2 amended: every status is one of the six, and every status change a
\* request commits is an edge of the lifecycle or the edge waiting -> failed
\* (a waiting tuple failed by its worker or by a failed parent); a tuple
\* becomes done only from doing.
C2_Lifecycle ==
  [][/\ \A k \in TupleKeys(db') : StatusOf(db', k) \in Statuses
     /\ StatusChanges \subseteq LifecycleEdges \cup {<<StatusWaiting, StatusFailed>>}
     /\ \A c \in StatusChanges : c[2] = StatusDone => c[1] = StatusDoing]_vars

\* C2's case: a tuple is done (it went through todo and doing) while a tuple
\* that waited on a parent is failed.
C2_Witness ==
  /\ last.op = "fail" /\ last.err = NoError
  /\ \E k \in TupleKeys(db), p \in TupleKeys(db) :
       /\ p \in ParentKeys(db, k)
       /\ <<p, StatusDoing, StatusFailed>> \in last.changes
       /\ <<k, StatusWaiting, StatusFailed>> \in last.changes

\* The status the claim C3 derives from the parents' statuses.
C3_Derived(statuses) ==
  IF StatusFailed \in statuses THEN StatusFailed
  ELSE IF statuses \subseteq {StatusDone} THEN StatusTodo
  ELSE StatusWaiting

\* C3: the status of a tuple the step creates is failed if a listed parent is
\* failed, otherwise todo if all listed parents are done (none listed
\* included), otherwise waiting.
C3_StatusAtCreation ==
  [][\A k \in TupleKeys(db') \ TupleKeys(db) :
       StatusOf(db', k) = C3_Derived({StatusOf(db, p) : p \in ParentKeys(db', k)})]_vars

\* C3's case: a tuple has just been created failed from two parents, one
\* failed and listed after one that is neither done nor failed.
C3_Witness ==
  /\ last.op = "create" /\ last.err = NoError
  /\ \E k \in TupleKeys(db) :
       /\ <<k, "", StatusFailed>> \in last.changes
       /\ Len(db.tuples[k].InModelKeys) = 2
       /\ StatusOf(db, db.tuples[k].InModelKeys[1]) \in {StatusWaiting, StatusDoing, StatusAborted}
       /\ StatusOf(db, db.tuples[k].InModelKeys[2]) = StatusFailed

InPlan(d, k) == d.tuples[k].ComputePlanKey # NoPlan
WaitingKeys(d) == {k \in TupleKeys(d) : StatusOf(d, k) = StatusWaiting}

C4_FailPropagation ==
  \A k \in TupleKeys(db) :
    LET r == logFailAggregate(db, k, LogText, db.tuples[k].Worker)
        after == Commit(db, r)
    IN r.err = NoError =>
         IF InPlan(db, k)
         THEN \A c \in TupleKeys(db) \ {k} : StatusOf(after, c) = StatusOf(db, c)
         ELSE \A c \in TupleKeys(db) :
                k \in ParentKeys(db, c) => StatusOf(after, c) = StatusFailed

\* C4's case: a fail request has failed a doing tuple outside any compute plan
\* and, with it, its waiting child.
C4_Witness ==
  /\ last.op = "fail" /\ last.err = NoError
  /\ \E k \in TupleKeys(db), c \in TupleKeys(db) :
       /\ ~InPlan(db, k)
       /\ k \in ParentKeys(db, c)
       /\ <<k, StatusDoing, StatusFailed>> \in last.changes
       /\ <<c, StatusWaiting, StatusFailed>> \in last.changes

ModelEntries(d, k) == {e \in d.idxModel : e[2] = k}

\* C5 as stated: the model index holds exactly one entry for each done tuple
\* and none for a tuple that is not done.
C5_OneModelIndexEntry ==
  \A k \in TupleKeys(db) :
    Cardinality(ModelEntries(db, k)) = IF StatusOf(db, k) = StatusDone THEN 1 ELSE 0

\* C6: a tuple's OutModel is present exactly when the tuple is done, and no
\* request replaces an OutModel that is present.
C6_OutModelSetOnce ==
  [][/\ \A k \in TupleKeys(db') :
          db'.tuples[k].OutModel # NoModel <=> StatusOf(db', k) = StatusDone
     /\ \A k \in TupleKeys(db) :
          db.tuples[k].OutModel # NoModel
            => db'.tuples[k].OutModel = db.tuples[k].OutModel]_vars

\* C6's case: a success request carrying another model was accepted for a
\* tuple that was done already, and the tuple still has its first OutModel.
C6_Witness ==
  /\ last.op = "success" /\ last.err = NoError /\ last.changes = {}
  /\ \E k \in TupleKeys(db) :
       /\ StatusOf(db, k) = StatusDone
       /\ \E e \in ModelEntries(db, k) : e[1] # db.tuples[k].OutModel

\* The in-memory tuples a handler passes to commitStatusUpdate: the stored
\* record, as start does, with the log appended, as fail does, and with the
\* OutModel set too, as succeed does.
LoadedTuples(d, k) ==
  {d.tuples[k], [d.tuples[k] EXCEPT !.Log = @ \o LogText]}
  \cup {[d.tuples[k] EXCEPT !.OutModel = m, !.Log = @ \o LogText] : m \in Models}

\* C7: commitStatusUpdate with the tuple's current status returns without
\* error and leaves the ledger (records, indexes, compute plans, events) and
\* the tuple as they were; and whatever status it has applied, applying the
\* same status again changes nothing more.
C7_CommitIdempotent ==
  \A k \in TupleKeys(db) : \A t \in LoadedTuples(db, k) :
    /\ commitStatusUpdate(db, t, k, t.Status) = [err |-> NoError, db |-> db, tuple |-> t]
    /\ \A s \in Statuses :
         LET once == commitStatusUpdate(db, t, k, s)
         IN once.err = NoError
              => commitStatusUpdate(once.db, once.tuple, k, s) = once

\* C7's case: the worker's start request for a tuple that was doing already
\* was accepted and changed no status.
C7_Witness ==
  /\ last.op = "start" /\ last.err = NoError /\ last.changes = {}
  /\ \E k \in TupleKeys(db) : StatusOf(db, k) = StatusDoing

\* A saved tuple of the request's compute plan has the request's worker and
\* the rank the request's rank string parses to.
SameRankSaved(d, inp) ==
  /\ inp.ComputePlanKey # NoPlan
  /\ inp.Rank # NoRank
  /\ Atoi(inp.Rank).err = NoError
  /\ \E j \in TupleKeys(d) :
       /\ d.tuples[j].ComputePlanKey = inp.ComputePlanKey
       /\ d.tuples[j].Worker = inp.Worker
       /\ d.tuples[j].Rank = Atoi(inp.Rank).val

\* C8 as stated: creating a tuple with the (ComputePlanKey, Worker, Rank) of a
\* saved tuple yields Conflict when availability checking is enabled and
\* succeeds when it is disabled.
C8_ConflictOnSameRank ==
  \A inp \in PlanRequests :
    SameRankSaved(db, inp) =>
      /\ createAggregatetupleInternal(db, inp, {}, TRUE).err = ErrConflict
      /\ createAggregatetupleInternal(db, inp, {}, FALSE).err = NoError

\* C9 as stated: within one compute plan no two distinct tuples have the same
\* (Worker, Rank), and the rank index holds at most one key under each
\* (plan, worker, rank) prefix.
C9_UniqueWorkerRank ==
  /\ \A j \in TupleKeys(db), k \in TupleKeys(db) :
       (/\ j # k
        /\ InPlan(db, j)
        /\ db.tuples[j].ComputePlanKey = db.tuples[k].ComputePlanKey)
         => <<db.tuples[j].Worker, db.tuples[j].Rank>>
              # <<db.tuples[k].Worker, db.tuples[k].Rank>>
  /\ \A e \in db.idxPlanRank, f \in db.idxPlanRank :
       (e[1] = f[1] /\ e[2] = f[2] /\ e[3] = f[3]) => e[4] = f[4]

\* C10: a start, fail or success request for an existing tuple from a caller
\* other than the tuple's worker is answered Forbidden and commits nothing:
\* the ledger after the request is the ledger before it.
C10_ForbiddenChangesNothing ==
  \A k \in TupleKeys(db) : \A caller \in Nodes \ {db.tuples[k].Worker} :
    \A r \in {logStartAggregate(db, k, caller), logFailAggregate(db, k, LogText, caller)}
             \cup {logSuccessAggregate(db, k, m, LogText, caller) : m \in Models} :
      r.err = ErrForbidden /\ Commit(db, r) = db

\* C10's case: a success request from another node than the worker of a doing
\* tuple has been answered Forbidden.
C10_Witness ==
  /\ last.op = "success" /\ last.err = ErrForbidden
  /\ \E k \in TupleKeys(db) : StatusOf(db, k) = StatusDoing /\ db.idxModel = {}

C12_AbortOnlyFromWaiting ==
  \A k \in TupleKeys(db) :
    LET c == commitStatusUpdate(db, db.tuples[k], k, StatusAborted)
    IN /\ c.err = NoError
       /\ StatusOf(db, k) \in {StatusTodo, StatusDoing, StatusDone, StatusFailed}
            => c = [err |-> NoError, db |-> db, tuple |-> db.tuples[k]]
       /\ StatusOf(db, k) = StatusWaiting
            => /\ c.db.tuples[k] = [db.tuples[k] EXCEPT !.Status = StatusAborted]
               /\ \A j \in TupleKeys(db) \ {k} : c.db.tuples[j] = db.tuples[j]
       /\ c.db # db => StatusOf(db, k) = StatusWaiting

\* C12's case: the abort of the only tuple of the ledger, a doing member of a
\* compute plan, has returned without error and changed no status.
C12_Witness ==
  /\ last.op = "abort" /\ last.err = NoError /\ last.changes = {}
  /\ \E k \in TupleKeys(db) :
       /\ TupleKeys(db) = {k}
       /\ StatusOf(db, k) = StatusDoing
       /\ InPlan(db, k)

\* C13: the index aggregatetuple~worker~status~key holds, for every tuple on
\* the ledger, exactly one entry, the one of the tuple's stored Worker and
\* Status, and no entry for any other key.
C13_WorkerStatusIndexExact ==
  db.idxWorkerStatus =
    {<<db.tuples[k].Worker, db.tuples[k].Status, k>> : k \in TupleKeys(db)}

\* C13's case: a fail request has changed the status of two tuples, the one
\* it names and its child by propagation, and the index holds their entries
\* for failed.
C13_Witness ==
  /\ last.op = "fail" /\ last.err = NoError
  /\ \E p \in TupleKeys(db), k \in TupleKeys(db) :
       /\ p # k
       /\ {c[1] : c \in last.changes} = {p, k}
       /\ <<db.tuples[p].Worker, StatusFailed, p>> \in db.idxWorkerStatus
       /\ <<db.tuples[k].Worker, StatusFailed, k>> \in db.idxWorkerStatus

\* C14 as stated: a create request with a rank and no compute plan key is
\* answered BadRequest and commits nothing; a request with neither is accepted
\* and its tuple is in no plan; and a stored tuple has a rank index entry, the
\* mark of a rank that was set, exactly when it has a compute plan key.
C14_RankNeedsPlan ==
  /\ \A inp \in PlanRequests :
       LET r == createAggregatetupleInternal(db, inp, {}, TRUE)
       IN /\ (inp.ComputePlanKey = NoPlan /\ inp.Rank # NoRank)
               => r.err = ErrBadRequest /\ Commit(db, r) = db
          /\ (inp.ComputePlanKey = NoPlan /\ inp.Rank = NoRank)
               => /\ r.err = NoError
                  /\ ~InPlan(Commit(db, r), inp.Key)
                  /\ Commit(db, r).plans = db.plans
  /\ \A k \in TupleKeys(db) :
       InPlan(db, k) <=> \E e \in db.idxPlanRank : e[4] = k

\* C15 as stated: a create request one of whose listed parents does not
\* resolve (its key is not on the ledger, or its record cannot be read) is
\* answered Internal and creates nothing; and the status of the tuple the
\* last request created is derived from all the parents it lists.
C15_UnresolvedParentRejected ==
  /\ \A c \in UnreadableCreations :
       (/\ c[2] \subseteq 1..Len(c[1].InModels)
        /\ \/ c[2] # {}
           \/ \E i \in 1..Len(c[1].InModels) : ~KeyExists(db, c[1].InModels[i]))
         => LET r == createAggregatetupleInternal(db, c[1], c[2], TRUE)
            IN r.err = ErrInternal /\ Commit(db, r) = db
  /\ \A c \in last.changes :
       c[2] = "" => c[3] = C3_Derived({StatusOf(db, p) : p \in ParentKeys(db, c[1])})

\* C16 as stated: a create request for a compute plan whose rank string does
\* not parse, or parses to a negative number, is answered BadRequest and
\* registers nothing in the plan; no stored tuple has a negative rank.
C16_RankNonNegative ==
  /\ \A inp \in PlanRequests :
       (/\ inp.ComputePlanKey # NoPlan
        /\ inp.Rank # NoRank
        /\ Atoi(inp.Rank).err # NoError \/ Atoi(inp.Rank).val < 0)
         => LET r == createAggregatetupleInternal(db, inp, {}, TRUE)
            IN r.err = ErrBadRequest /\ Commit(db, r).plans = db.plans
  /\ \A k \in TupleKeys(db) : db.tuples[k].Rank >= 0

\* The fold of MergePermissions over the permissions of the listed parents,
\* in the order of the list, from the permissions `merged`.
RECURSIVE C17_Fold(_, _, _)
C17_Fold(d, parents, merged) ==
  IF parents = <<>> THEN merged
  ELSE C17_Fold(d, Tail(parents),
                MergePermissions(merged, d.tuples[Head(parents)].Permissions))

ErrorDiscarded(d, r) == r.err # NoError => Commit(d, r) = d

PlanTuples(d, p) == {k \in TupleKeys(d) : d.tuples[k].ComputePlanKey = p}

\* C19: every compute plan a tuple carries is on the ledger; the members of a
\* plan are the tuples that carry its key, each recorded with its worker and
\* the status it has now, whatever request gave it that status; so a tuple
\* without a compute plan key is in no plan's state.
C19_PlanTracksMembers ==
  /\ \A k \in TupleKeys(db) : InPlan(db, k) => db.tuples[k].ComputePlanKey \in DOMAIN db.plans
  /\ \A p \in DOMAIN db.plans :
       /\ p # NoPlan
       /\ db.plans[p].members =
            [k \in PlanTuples(db, p) |->
               [Status |-> db.tuples[k].Status, Worker |-> db.tuples[k].Worker]]
       /\ \A m \in db.plans[p].models : m[2] \in PlanTuples(db, p)

\* C19's case: the success request for a parent has made a waiting member of
\* a compute plan todo, and the plan records the member as todo.
C19_Witness ==
  /\ last.op = "success" /\ last.err = NoError
  /\ \E k \in TupleKeys(db) :
       /\ InPlan(db, k)
       /\ <<k, StatusWaiting, StatusTodo>> \in last.changes
       /\ db.plans[db.tuples[k].ComputePlanKey].members[k].Status = StatusTodo

\* Two create requests name the same place in a compute plan: the same plan,
\* the same worker and ranks of the same value.
SamePlace(inp1, inp2) ==
  /\ inp1.Rank # NoRank /\ inp2.Rank # NoRank
  /\ inp1.ComputePlanKey = inp2.ComputePlanKey
  /\ inp1.Worker = inp2.Worker
  /\ Atoi(inp1.Rank).val = Atoi(inp2.Rank).val

\* C20: of two create transactions that ran concurrently (the second to
\* commit was simulated against a ledger without the first, the same ledger
\* as the first's or another), for different keys and the same (plan,
\* worker, rank) or for the same key, the ledger commits at most one.
C20_OneOfTwoRacersCommits ==
  \A i, j \in 1..Len(chain) :
    (i < j /\ chain[j].height < i) =>
      /\ chain[i].inp.Key # chain[j].inp.Key
      /\ ~SamePlace(chain[i].inp, chain[j].inp)

\* C20's case: a transaction has just been refused for its reads, and the
\* ledger had committed another, simulated against the same ledger, for
\* another key and the same (plan, worker, rank).
C20_Witness ==
  /\ last.op = "order" /\ last.err = ErrReadConflict
  /\ \E i \in 1..Len(chain) :
       /\ chain[i].height = last.tx.height
       /\ chain[i].inp.Key # last.tx.inp.Key
       /\ SamePlace(chain[i].inp, last.tx.inp)
       /\ chain[i].inp.Rank = last.tx.inp.Rank

\* The ledger d holds no tuple among its own ancestors: every parent a tuple
\* lists was on the ledger before the tuple (keys are created in increasing
\* order).
ParentsPrecede(d) == \A k \in TupleKeys(d) : \A p \in ParentKeys(d, k) : p \in TupleKeys(d) /\ p < k

\* The result of the handler of the request under way, computed in one piece.
HandlerResult ==
  IF run.op = "fail" THEN logFailAggregate(db, run.key, LogText, run.caller)
  ELSE logSuccessAggregate(db, run.key, run.outModelKey, LogText, run.caller)

\* The number of ways down from a tuple to its descendants: the child updates
\* a propagation from k can make at most.
RECURSIVE Descents(_, _)
Descents(d, k) ==
  LET children == ChildKeys(d, k)
      Sum[S \in SUBSET children] ==
        IF S = {} THEN 0
        ELSE LET c == Least(S) IN 1 + Descents(d, c) + Sum[S \ {c}]
  IN Sum[children]

\* While a request propagates: the graph is acyclic, each call under way
\* hands down the status the request has written for its parent, the calls
\* under way follow one path of the graph, and the child updates made are no
\* more than the ways down from the request's tuple.
C21_Propagating ==
  run # Idle =>
    /\ ParentsPrecede(run.work)
    /\ \A i \in 1..Len(run.stack) :
         /\ run.stack[i].parentStatus = StatusOf(run.work, run.stack[i].parentKey)
         /\ i > 1 => /\ run.stack[i - 1].parentKey \in ParentKeys(run.work, run.stack[i].parentKey)
                     /\ run.stack[i].parentKey \in run.stack[i].alreadyUpdatedKeys
    /\ run.stack[1].parentKey = run.key
    /\ run.updates <= Descents(run.work, run.key)
    /\ (Len(run.stack) = 1 /\ run.stack[1].todo = {}) =>
         /\ HandlerResult.err = NoError
         /\ Commit(db, HandlerResult) = Commit(db, [err |-> NoError, db |-> run.work])

====
